---- MODULE Spec2Model ----
(***************************************************************************)
(* AutoGem: a browser overlay that watches a chat page, extracts the user  *)
(* turns, asks the background script for follow-up suggestions and         *)
(* optionally auto-submits the best one.                                   *)
(*                                                                         *)
(* Three specifications share this module:                                 *)
(*   Spec       the content-script overlay (src/src/content/Content.tsx)   *)
(*   SpecBg     the background router, suggestion generator and model      *)
(*              session manager (src/src/background/index.ts and the ai    *)
(*              module at src/src/content/index.tsx:48-108)                *)
(*   SpecPrompt the prompt construction of generateQuestions, as a pure    *)
(*              function of the message list                               *)
(* Time is counted in units of 1000 ms.  Confidences are in percent.       *)
(***************************************************************************)
EXTENDS Integers, Sequences, FiniteSets, TLC

\* ------------------------------------------------------------------ bounds
MaxTurns == 3          \* user turns the page shows
MaxTime == 4           \* clock horizon, in units of 1000 ms
MaxInflight == 2       \* analyze requests awaiting their response
MaxTimers == 2         \* debounce timeouts pending at once
MaxReqs == 2           \* messages the background listener receives
MaxMsgs == 12          \* length of a message list given to generateQuestions
MaxChats == 1          \* times the page opens a new, empty conversation
MaxBlank == 1          \* user turns whose text is only white space
MaxCount == 2          \* cap of the consecutive-high-confidence counter

\* ------------------------------------------------------- program constants
CONFIDENCE_THRESHOLD == 85
DEBOUNCE_WAIT == 2
MIN_MESSAGES == 3
RECENT_MESSAGES == 10

VARIABLES
  \* the page, the parity of the toggle_visibility messages received, the clock
  dom, chats, toggles, now, hasContainer,
  \* React state of the Content component
  isVisible, messages, suggestions, isAnalyzing, aiAvailable, isAutoMode,
  confidenceScore, consecutiveHighConfidence, previousMessagesRef,
  \* the memoized analyzeConversation callback: what its closure captured
  analyzeConversation,
  \* pending debounce timeouts, analyze requests awaiting a response,
  \* the check_capabilities request of the mount effect
  timers, inflight, capPending,
  \* what the last step did to the outside world
  fx

VARIABLES
  \* background script: shape of the host environment, the module variable
  \* languageModel (0 is null), sessions the host has created, and the
  \* activations of the listeners (0: onInstalled, 1..MaxReqs: onMessage)
  host, languageModel, sessionsCreated, reqs

VARIABLES
  \* prompt construction: the message list and the Context section built
  promptMessages, promptContext, promptBuilt

bvars == <<host, languageModel, sessionsCreated, reqs>>
pvars == <<promptMessages, promptContext, promptBuilt>>

cvars == <<dom, chats, toggles, now, hasContainer, isVisible, messages, suggestions,
           isAnalyzing, aiAvailable, isAutoMode, confidenceScore,
           consecutiveHighConfidence, previousMessagesRef,
           analyzeConversation, timers, inflight, capPending, fx>>

\* ------------------------------------------------------------- the page
\* " " stands for a turn whose text is only white space
Texts == {"q", " "}

trim(t) == IF t = " " THEN "" ELSE t

Message(t, ts) == [text |-> t, timestamp |-> ts, isUser |-> TRUE]

extractMessagesFromGemini(d, t) ==
  LET F[i \in 0..Len(d)] ==
        IF i = 0 THEN <<>>
        ELSE IF trim(d[i]) # "" THEN Append(F[i-1], Message(trim(d[i]), t))
             ELSE F[i-1]
  IN F[Len(d)]

\* JSON.stringify of a Message list, as the sequence of its tokens
stringify(ms) ==
  LET F[i \in 0..Len(ms)] ==
        IF i = 0 THEN <<"[">>
        ELSE F[i-1] \o <<ms[i].text, ToString(ms[i].timestamp),
                         IF ms[i].isUser THEN "true" ELSE "false">>
  IN F[Len(ms)] \o <<"]">>

\* ------------------------------------------------------- suggestion batches
Sug(t, c, k) == [text |-> t, confidence |-> c, category |-> k]

BatchHigh == <<Sug("s1", 90, "followUp"), Sug("s2", 95, "exploration"),
               Sug("s3", 95, "clarification")>>
BatchEdge == <<Sug("s4", 85, "followUp"), Sug("s5", 60, "exploration")>>
BatchEmpty == <<>>
Batches == {BatchHigh, BatchEdge, BatchEmpty}

\* mutant of bestSuggestion: the comparison written with >=, keeping the last
\* maximum
bestSuggestion_lastMax(b) ==
  LET F[i \in 1..Len(b)] ==
        IF i = 1 THEN b[1]
        ELSE IF b[i].confidence >= F[i-1].confidence THEN b[i] ELSE F[i-1]
  IN F[Len(b)]

\* Array.prototype.reduce without an initial value, keeping the first maximum
bestSuggestion(b) ==
  LET F[i \in 1..Len(b)] ==
        IF i = 1 THEN b[1]
        ELSE IF b[i].confidence > F[i-1].confidence THEN b[i] ELSE F[i-1]
  IN F[Len(b)]

\* input: what document.querySelector('[contenteditable="true"]') found, if
\* it was called; sent: the data.messages of the requests issued; clicked:
\* the index of the suggestion button clicked; error: an exception left the
\* handler uncaught; pos, src, batch: the place in issue order and the origin
\* of the request whose success response was handled, and its suggestions;
\* accepted: the user answered window.confirm with OK; stop: Stop Auto was
\* pressed
NoFx == [extracted |-> FALSE, changed |-> FALSE, click |-> FALSE,
         clicked |-> 0, error |-> FALSE,
         pos |-> 0, src |-> "", batch |-> <<>>,
         accepted |-> FALSE, stop |-> FALSE,
         sent |-> <<>>, received |-> FALSE, confirms |-> 0,
         input |-> "unqueried", writes |-> <<>>, enters |-> 0,
         disarmed |-> FALSE, failed |-> FALSE, cmd |-> "", acks |-> <<>>]

\* What a memoized analyzeConversation holds: the messages and aiAvailable of
\* the render that created it, and the updateConfidenceMetrics of that render,
\* whose captured consecutiveHighConfidence and isAutoMode are read only by
\* the test `consecutiveHighConfidence >= 2 && !isAutoMode` (asks).
Closure(m, ai, chc, auto) ==
  [msgs |-> m, ai |-> ai, asks |-> (chc >= 2 /\ ~auto)]

InitContent ==
  /\ dom = <<>>
  /\ chats = 0
  /\ toggles = 0
  /\ now = 0
  /\ hasContainer \in BOOLEAN
  /\ isVisible = FALSE
  /\ messages = <<>>
  /\ suggestions = <<>>
  /\ isAnalyzing = FALSE
  /\ aiAvailable = FALSE
  /\ isAutoMode = FALSE
  /\ confidenceScore = 0
  /\ consecutiveHighConfidence = 0
  /\ previousMessagesRef = <<>>
  /\ analyzeConversation = Closure(<<>>, FALSE, 0, FALSE)
  /\ timers = <<>>
  /\ inflight = <<>>
  /\ capPending = TRUE
  /\ fx = NoFx


\* ------------------------------------------------- one handler, one render
\* The values a handler leaves behind before React renders again.  msgsSet /
\* suggSet say that setMessages / setSuggestions was called with a new array
\* (React compares array state and dependencies by reference).
Cur ==
  [messages |-> messages, msgsSet |-> FALSE,
   suggestions |-> suggestions, suggSet |-> FALSE,
   isAnalyzing |-> isAnalyzing, aiAvailable |-> aiAvailable,
   isAutoMode |-> isAutoMode, confidenceScore |-> confidenceScore,
   consecutiveHighConfidence |-> consecutiveHighConfidence,
   isVisible |-> isVisible, previousMessagesRef |-> previousMessagesRef,
   timers |-> timers, inflight |-> inflight,
   fx |-> NoFx]

\* mutant of analyze: the `if (!aiAvailable) return` test left out
analyze_noCapabilityTest(h, cl, src) ==
  IF Len(cl.msgs) < MIN_MESSAGES
  THEN [h EXCEPT !.suggestions = <<>>, !.suggSet = TRUE]
  ELSE [h EXCEPT !.isAnalyzing = TRUE,
                 !.inflight = Append(@, [asks |-> cl.asks, src |-> src]),
                 !.fx.sent = Append(@, cl.msgs)]

\* Body of the analyzeConversation callback up to its await, run with the
\* values the callback cl captured when it was created.
analyze(h, cl, src) ==
  IF ~cl.ai THEN h
  ELSE IF Len(cl.msgs) < MIN_MESSAGES
       THEN [h EXCEPT !.suggestions = <<>>, !.suggSet = TRUE]
       ELSE [h EXCEPT !.isAnalyzing = TRUE,
                      !.inflight = Append(@, [asks |-> cl.asks, src |-> src]),
                      !.fx.sent = Append(@, cl.msgs)]

\* analyze would issue a request
sends(cl) == cl.ai /\ Len(cl.msgs) >= MIN_MESSAGES

\* mutant of updateConfidenceMetrics: the else branch does not reset the counter
updateConfidenceMetrics_cumulative(h, r, b, accept) ==
  LET best == bestSuggestion(b)
      h1 == [h EXCEPT !.confidenceScore = best.confidence] IN
  IF best.confidence > CONFIDENCE_THRESHOLD
  THEN LET h2 == [h1 EXCEPT !.consecutiveHighConfidence = @ + 1] IN
       IF r.asks
       THEN [h2 EXCEPT !.fx.confirms = @ + 1,
                       !.fx.accepted = accept,
                       !.isAutoMode = IF accept THEN TRUE ELSE @]
       ELSE h2
  ELSE h1

\* updateConfidenceMetrics as captured by the callback that issued request r;
\* accept is the user's answer should window.confirm be shown.
updateConfidenceMetrics(h, r, b, accept) ==
  LET best == bestSuggestion(b)
      h1 == [h EXCEPT !.confidenceScore = best.confidence] IN
  IF best.confidence > CONFIDENCE_THRESHOLD
  THEN LET h2 == [h1 EXCEPT !.consecutiveHighConfidence = @ + 1] IN
       IF r.asks
       THEN [h2 EXCEPT !.fx.confirms = @ + 1,
                       !.fx.accepted = accept,
                       !.isAutoMode = IF accept THEN TRUE ELSE @]
       ELSE h2
  ELSE [h1 EXCEPT !.consecutiveHighConfidence = 0]

\* mutant of autoSubmits: the threshold test written with >=
autoSubmits_atThreshold(h) ==
  /\ Len(h.suggestions) > 0
  /\ h.isAutoMode
  /\ bestSuggestion(h.suggestions).confidence >= CONFIDENCE_THRESHOLD

\* sendAutoResponse reaches the threshold test and passes it
autoSubmits(h) ==
  /\ Len(h.suggestions) > 0
  /\ h.isAutoMode
  /\ bestSuggestion(h.suggestions).confidence > CONFIDENCE_THRESHOLD

\* React renders the handler's state and runs the effects whose dependencies
\* changed: the observer lifecycle effect and the auto-response effect.
Render(h, hasInput) ==
  LET recreated == h.msgsSet \/ h.aiAvailable # aiAvailable
      ac == IF recreated
            THEN Closure(h.messages, h.aiAvailable,
                         h.consecutiveHighConfidence, h.isAutoMode)
            ELSE analyzeConversation
      \* observer effect: cleanup disconnects the observer, the timeout that
      \* its debounce armed is not cleared
      rerun == recreated \/ h.isVisible # isVisible
      tm == IF rerun
            THEN [i \in 1..Len(h.timers) |-> [h.timers[i] EXCEPT !.live = FALSE]]
            ELSE h.timers
      \* auto-response effect
      runAuto == /\ h.suggSet \/ h.isAutoMode # isAutoMode
                 /\ Len(h.suggestions) > 0
                 /\ h.isAutoMode
      submit == runAuto /\ autoSubmits(h)
      disarm == runAuto /\ ~autoSubmits(h)
      best == bestSuggestion(h.suggestions)
  IN
  /\ messages' = h.messages
  /\ suggestions' = h.suggestions
  /\ isAnalyzing' = h.isAnalyzing
  /\ aiAvailable' = h.aiAvailable
  /\ isAutoMode' = IF disarm THEN FALSE ELSE h.isAutoMode
  /\ confidenceScore' = h.confidenceScore
  /\ consecutiveHighConfidence' = h.consecutiveHighConfidence
  /\ isVisible' = h.isVisible
  /\ previousMessagesRef' = h.previousMessagesRef
  /\ analyzeConversation' = ac
  /\ timers' = tm
  /\ inflight' = h.inflight
  /\ fx' = IF submit
           THEN IF hasInput
                THEN [h.fx EXCEPT !.input = "found",
                                  !.writes = Append(@, best.text),
                                  !.enters = @ + 1]
                ELSE [h.fx EXCEPT !.input = "missing"]
           ELSE IF disarm THEN [h.fx EXCEPT !.disarmed = TRUE]
           ELSE h.fx

\* The page may or may not hold the editable input when it is looked up.
Commit(h) ==
  \E hasInput \in IF autoSubmits(h) THEN BOOLEAN ELSE {FALSE} :
    Render(h, hasInput)

\* --------------------------------------------------------------- actions
\* The response to the check_capabilities request of the mount effect.
CapabilitiesResponse ==
  /\ capPending
  /\ \E v \in {"true", "false", "missing"} :
       Commit([Cur EXCEPT !.aiAvailable = (v = "true")])
  /\ capPending' = FALSE
  /\ UNCHANGED <<dom, chats, toggles, now, hasContainer, bvars, pvars>>

\* mutant of messageListenerOn: setIsVisible(true) instead of the flip
messageListenerOn_show(cmd) ==
  /\ Commit(IF cmd = "toggle_visibility"
            THEN [Cur EXCEPT !.isVisible = TRUE,
                             !.fx.cmd = cmd,
                             !.fx.acks = <<[success |-> TRUE]>>]
            ELSE [Cur EXCEPT !.fx.cmd = cmd])
  /\ toggles' = IF cmd = "toggle_visibility" THEN (toggles + 1) % 2 ELSE toggles
  /\ UNCHANGED <<dom, chats, now, hasContainer, capPending, bvars, pvars>>

\* messageListener of the content script receiving a message with command
\* cmd: setIsVisible(prev => !prev) and sendResponse({ success: true }) for
\* toggle_visibility, nothing otherwise
messageListenerOn(cmd) ==
  /\ Commit(IF cmd = "toggle_visibility"
            THEN [Cur EXCEPT !.isVisible = ~isVisible,
                             !.fx.cmd = cmd,
                             !.fx.acks = <<[success |-> TRUE]>>]
            ELSE [Cur EXCEPT !.fx.cmd = cmd])
  /\ toggles' = IF cmd = "toggle_visibility" THEN (toggles + 1) % 2 ELSE toggles
  /\ UNCHANGED <<dom, chats, now, hasContainer, capPending, bvars, pvars>>

\* chrome.runtime.onMessage listener of the content script
messageListener ==
  \E cmd \in {"toggle_visibility", "unknown"} : messageListenerOn(cmd)

observing == isVisible /\ hasContainer

\* The page changes the chat container: a new user turn, a new and empty
\* conversation, or anything else (an answer streaming in).  An attached observer calls its debounced
\* callback: clearTimeout of its own timeout, then setTimeout.
Mutation ==
  /\ \E k \in Texts \cup {"other", "newchat"} :
       /\ k \in Texts => Len(dom) < MaxTurns
       /\ k = " " => Len(SelectSeq(dom, LAMBDA t : t = " ")) < MaxBlank
       /\ k = "newchat" => dom # <<>> /\ chats < MaxChats
       /\ chats' = IF k = "newchat" THEN chats + 1 ELSE chats
       /\ dom' = IF k \in Texts THEN Append(dom, k)
                 ELSE IF k = "newchat" THEN <<>> ELSE dom
  /\ observing => /\ Len(SelectSeq(timers, LAMBDA t : ~t.live)) < MaxTimers
                  /\ now + DEBOUNCE_WAIT <= MaxTime
  /\ timers' = IF observing
               THEN Append(SelectSeq(timers, LAMBDA t : ~t.live),
                           [due |-> now + DEBOUNCE_WAIT,
                            cl |-> analyzeConversation, live |-> TRUE])
               ELSE timers
  /\ fx' = NoFx
  /\ UNCHANGED <<toggles, now, hasContainer, isVisible, messages, suggestions,
                 isAnalyzing, aiAvailable, isAutoMode, confidenceScore,
                 consecutiveHighConfidence, previousMessagesRef,
                 analyzeConversation, inflight, capPending, bvars, pvars>>

\* 1000 ms pass; a timeout that is due runs first
Tick ==
  /\ now < MaxTime
  /\ \A i \in 1..Len(timers) : timers[i].due > now
  /\ now' = now + 1
  /\ fx' = NoFx
  /\ UNCHANGED <<dom, chats, toggles, hasContainer, isVisible, messages, suggestions,
                 isAnalyzing, aiAvailable, isAutoMode, confidenceScore,
                 consecutiveHighConfidence, previousMessagesRef,
                 analyzeConversation, timers, inflight, capPending, bvars, pvars>>

\* The debounced callback of observeConversation: one extraction cycle.
DebouncedCycle ==
  /\ timers # <<>>
  /\ Head(timers).due <= now
  /\ LET cl == Head(timers).cl
         newMessages == extractMessagesFromGemini(dom, now)
         newMessagesString == stringify(newMessages)
         h0 == [Cur EXCEPT !.timers = Tail(timers),
                                    !.fx.extracted = TRUE]
     IN IF newMessagesString # previousMessagesRef
        THEN /\ sends(cl) => Len(inflight) < MaxInflight
             /\ Commit(analyze([h0 EXCEPT
                                  !.previousMessagesRef = newMessagesString,
                                  !.messages = newMessages,
                                  !.msgsSet = TRUE,
                                  !.fx.changed = TRUE], cl, "observer"))
        ELSE Commit(h0)
  /\ UNCHANGED <<dom, chats, toggles, now, hasContainer, capPending, bvars, pvars>>

panelShown == isVisible /\ aiAvailable

\* The Refresh button: onClick={analyzeConversation}, disabled={isAnalyzing}
Refresh ==
  /\ panelShown
  /\ ~isAnalyzing
  /\ sends(analyzeConversation) => Len(inflight) < MaxInflight
  /\ Commit(analyze(Cur, analyzeConversation, "refresh"))
  /\ UNCHANGED <<dom, chats, toggles, now, hasContainer, capPending, bvars, pvars>>

\* mutant of StopAuto: the click handler does not clear isAutoMode
StopAuto_ignored ==
  /\ panelShown
  /\ isAutoMode
  /\ Commit([Cur EXCEPT !.fx.stop = TRUE])
  /\ UNCHANGED <<dom, chats, toggles, now, hasContainer, capPending, bvars, pvars>>

\* The Stop Auto button, rendered in auto mode: setIsAutoMode(false)
StopAuto ==
  /\ panelShown
  /\ isAutoMode
  /\ Commit([Cur EXCEPT !.isAutoMode = FALSE, !.fx.stop = TRUE])
  /\ UNCHANGED <<dom, chats, toggles, now, hasContainer, capPending, bvars, pvars>>

\* mutant of suggestionOnClick: the `if (input)` test left out, so that the
\* assignment to textContent of null throws a TypeError
suggestionOnClick_unguarded(h, i, hasInput) ==
  LET h1 == [h EXCEPT !.fx.click = TRUE, !.fx.clicked = i] IN
  IF hasInput
  THEN [h1 EXCEPT !.fx.input = "found",
                  !.fx.writes = <<h.suggestions[i].text>>,
                  !.fx.enters = 1]
  ELSE [h1 EXCEPT !.fx.input = "missing", !.fx.error = TRUE]

\* onClick of the button of suggestion i: look the input up and, if it is
\* there, set its textContent, focus it and dispatch the Enter keydown
suggestionOnClick(h, i, hasInput) ==
  LET h1 == [h EXCEPT !.fx.click = TRUE, !.fx.clicked = i] IN
  IF hasInput
  THEN [h1 EXCEPT !.fx.input = "found",
                  !.fx.writes = <<h.suggestions[i].text>>,
                  !.fx.enters = 1]
  ELSE [h1 EXCEPT !.fx.input = "missing"]

\* A click on a rendered suggestion; the buttons are rendered when the panel
\* is shown and isAnalyzing is false
SuggestionClick ==
  /\ panelShown
  /\ ~isAnalyzing
  /\ \E i \in 1..Len(suggestions), hasInput \in BOOLEAN :
       Commit(suggestionOnClick(Cur, i, hasInput))
  /\ UNCHANGED <<dom, chats, toggles, now, hasContainer, capPending, bvars, pvars>>

RemoveAt(s, i) == SubSeq(s, 1, i-1) \o SubSeq(s, i+1, Len(s))

\* mutant of finallyBlock: setIsAnalyzing(false) left out
finallyBlock_missing(h, i) ==
  [h EXCEPT !.inflight = RemoveAt(inflight, i)]

\* the finally block of analyzeConversation, the request i being over
finallyBlock(h, i) ==
  [h EXCEPT !.inflight = RemoveAt(inflight, i), !.isAnalyzing = FALSE]

\* mutant of applyResponse: a response is shown only when no request issued
\* later is outstanding (request sequence numbering)
applyResponse_newestOnly(h, i, b) ==
  LET h1 == [h EXCEPT !.fx.received = TRUE, !.fx.pos = i,
                      !.fx.src = inflight[i].src, !.fx.batch = b] IN
  IF i = Len(inflight)
  THEN [h1 EXCEPT !.suggestions = b, !.suggSet = TRUE]
  ELSE h1

\* `if (response?.success) setSuggestions(response.suggestions)` for the
\* response with suggestions b to the request at place i of those in flight
applyResponse(h, i, b) ==
  [h EXCEPT !.suggestions = b, !.suggSet = TRUE,
            !.fx.received = TRUE, !.fx.pos = i,
            !.fx.src = inflight[i].src, !.fx.batch = b]

\* chrome.runtime.sendMessage settles: the rest of analyzeConversation
AnalyzeSettles ==
  \E i \in 1..Len(inflight) :
    LET r == inflight[i]
        h0 == finallyBlock(Cur, i)
    IN
    /\ \/ \E b \in Batches :
          \E accept \in IF b # <<>> /\ r.asks
                           /\ bestSuggestion(b).confidence > CONFIDENCE_THRESHOLD
                        THEN BOOLEAN ELSE {FALSE} :
            LET h1 == applyResponse(h0, i, b) IN
            IF b = <<>>
            THEN \* reduce of an empty array throws, the catch logs it
                 Commit(h1)
            ELSE LET h2 == updateConfidenceMetrics(h1, r, b, accept) IN
                 /\ h2.consecutiveHighConfidence <= MaxCount
                 /\ Commit(h2)
       \/ \* { success: false }, no response, or the round trip rejects
          Commit([h0 EXCEPT !.fx.failed = TRUE])
    /\ UNCHANGED <<dom, chats, toggles, now, hasContainer, capPending, bvars, pvars>>

\* ============================================================ background
\* ---------------------------------------------------- prompt construction
\* The Context section of the prompt of generateQuestions as its tokens:
\* slice(-10) when there are more than 10 messages, filter on isUser,
\* map to `User: ${text}`, join with a newline.
\* mutant of recentMessages: slice(0, 10) instead of slice(-10)
recentMessages_firstTen(ms) ==
  IF Len(ms) > RECENT_MESSAGES THEN SubSeq(ms, 1, RECENT_MESSAGES) ELSE ms

recentMessages(ms) ==
  IF Len(ms) > RECENT_MESSAGES
  THEN SubSeq(ms, Len(ms) - RECENT_MESSAGES + 1, Len(ms))
  ELSE ms

join(lines, sep) ==
  LET F[i \in 0..Len(lines)] ==
        IF i = 0 THEN <<>>
        ELSE IF i = 1 THEN lines[1]
        ELSE F[i-1] \o <<sep>> \o lines[i]
  IN F[Len(lines)]

promptContextOf(ms) ==
  LET users == SelectSeq(recentMessages(ms), LAMBDA m : m.isUser)
  IN join([i \in 1..Len(users) |-> <<"User: ", users[i].text>>], "\n")

\* ------------------------------------------------------- the host's model
Hosts == {"none", "ai", "full"}   \* no self.ai / no self.ai.languageModel / both

\* mutant of isLanguageModelAvailable: only 'ai' in self is tested
isLanguageModelAvailable_aiOnly == host # "none"

\* 'ai' in self && 'languageModel' in self.ai
isLanguageModelAvailable == host = "full"

\* What languageModel.prompt() can settle with: a rejection, or a text.  A
\* text is either not JSON or the rendering of a JSON value.
WellFormed == <<Sug("a", 90, "followUp"), Sug("b", 70, "exploration"),
                Sug("c", 100, "clarification")>>
IllFormed == <<[text |-> "a", confidence |-> 250, category |-> "other"],
               [question |-> "b"]>>
JsonValues == {[type |-> "array", items |-> WellFormed],
               [type |-> "array", items |-> IllFormed],
               [type |-> "array", items |-> <<>>],
               [type |-> "object"], [type |-> "number"],
               [type |-> "string"], [type |-> "null"]}
ModelOutcomes ==
  {[kind |-> "rejects", message |-> "model failed"],
   [kind |-> "text", json |-> FALSE]}
  \cup {[kind |-> "text", json |-> TRUE, value |-> v] : v \in JsonValues}

Fail(e) == [success |-> FALSE, error |-> e]
Ok(items) == [success |-> TRUE, suggestions |-> items]

\* mutant of parseResponse: the Array.isArray test left out
parseResponse_anyJson(o) ==
  IF o.kind = "rejects" THEN Fail(o.message)
  ELSE IF ~o.json THEN Fail("Unexpected token")
  ELSE Ok(IF o.value.type = "array" THEN o.value.items ELSE <<>>)

\* the try block of generateQuestions once prompt() has settled with o
parseResponse(o) ==
  IF o.kind = "rejects" THEN Fail(o.message)
  ELSE IF ~o.json THEN Fail("Unexpected token")          \* JSON.parse throws
  ELSE IF o.value.type # "array" THEN Fail("Invalid response format")
  ELSE Ok(o.value.items)

\* ------------------------------------------------------------ activations
DataShapes == {"nodata", "nomessages", "empty", "list", "notlist"}
Commands == {"analyze_conversation", "check_capabilities", "unknown"}
M(i) == [text |-> ToString(i), timestamp |-> i, isUser |-> TRUE]
MessageLists == {<<M(1), M(2), M(3)>>}

Pending == [state |-> "pending"]
Returned(v) == [state |-> "returned", value |-> v]
Threw(e) == [state |-> "threw", error |-> e]

NewReq == [pc |-> "new", cmd |-> "", data |-> "", msgs |-> <<>>, ret |-> "",
           resp |-> <<>>, got |-> -1, init |-> -1, threw |-> "",
           caps |-> 0, creates |-> 0,
           prompts |-> <<>>, outcome |-> [kind |-> "none"], result |-> Pending]

\* mutant of answer: the value is returned but sendResponse is not called
answer_silent(r, v) ==
  [r EXCEPT !.result = Returned(v), !.pc = "done"]

\* generateQuestions returns v and the router passes it to sendResponse
answer(r, v) ==
  [r EXCEPT !.result = Returned(v), !.resp = Append(@, v), !.pc = "done"]

\* generateQuestions from the point where `await getLanguageModel()` gave lm
\* up to its next await
generateQuestions(r, lm) ==
  LET r1 == [r EXCEPT !.got = lm] IN
  IF lm = 0 THEN answer(r1, Fail("Language model not available"))
  ELSE IF r.data = "notlist"
       THEN \* messages.filter is not a function: thrown outside the try of
            \* generateQuestions, caught by the router
            [r1 EXCEPT !.result = Threw("messages.filter is not a function"),
                       !.resp = Append(@, Fail("messages.filter is not a function")),
                       !.pc = "done"]
       ELSE [r1 EXCEPT !.pc = "prompt",
                       !.prompts = Append(@, promptContextOf(r.msgs))]

\* initLanguageModel returns ret; lm is the module variable at that moment.
\* initAllModels takes the returned value, getLanguageModel returns the
\* module variable.
initReturns(r, ret, lm) ==
  LET r0 == [r EXCEPT !.init = ret] IN
  IF r.cmd = "install" THEN [r0 EXCEPT !.got = ret, !.pc = "done"]
  ELSE generateQuestions(r0, lm)

\* mutant of initLanguageModel: the availability test left out
initLanguageModel_noProbe(r) ==
  IF languageModel # 0 THEN initReturns(r, languageModel, languageModel)
  ELSE [r EXCEPT !.pc = "caps", !.caps = @ + 1]

\* initLanguageModel up to its first host call
initLanguageModel(r) ==
  IF ~isLanguageModelAvailable THEN initReturns(r, 0, languageModel)
  ELSE IF languageModel # 0 THEN initReturns(r, languageModel, languageModel)
  ELSE [r EXCEPT !.pc = "caps", !.caps = @ + 1]

getLanguageModel(r) ==
  IF languageModel = 0 THEN initLanguageModel(r)
  ELSE generateQuestions(r, languageModel)

\* mutant of invalidData: the test for an empty list left out
invalidData_missingOnly(data) == data \in {"nodata", "nomessages"}

\* the two validation tests of the analyze_conversation case
invalidData(data) == data \in {"nodata", "nomessages", "empty"}

\* mutant of unknownCommand: a default case that answers with a failure
unknownCommand_answered(r) ==
  [r EXCEPT !.ret = "undefined", !.pc = "done",
            !.resp = <<Fail("Unknown command")>>]

\* the switch of the background listener has no case for the command: the
\* listener returns undefined
unknownCommand(r) == [r EXCEPT !.ret = "undefined", !.pc = "done"]

\* chrome.runtime.onMessage listener of the background script, together with
\* the part of its async block that runs before the first host call settles
onMessage(id) ==
  /\ reqs[id].pc = "new"
  /\ id > 1 => reqs[id - 1].pc # "new"       \* messages are numbered as they arrive
  /\ \E cmd \in Commands, data \in DataShapes, ms \in MessageLists :
       LET r == [NewReq EXCEPT !.cmd = cmd] IN
       /\ cmd # "analyze_conversation" => data = "nodata"
       /\ reqs' = [reqs EXCEPT ![id] =
            CASE cmd = "analyze_conversation" ->
                   IF invalidData(data)
                   THEN [r EXCEPT !.data = data, !.ret = "undefined",
                                  !.resp = <<Fail("Invalid data")>>,
                                  !.pc = "done"]
                   ELSE getLanguageModel(
                          [r EXCEPT !.data = data, !.ret = "true",
                                    !.msgs = IF data = "list" THEN ms ELSE <<>>])
              [] cmd = "check_capabilities" ->
                   [r EXCEPT !.ret = "true", !.pc = "done",
                             !.resp = <<[capabilities |->
                                [isLanguageModelAvailable |->
                                   isLanguageModelAvailable]]>>]
              [] OTHER -> unknownCommand(r)]
  /\ UNCHANGED <<host, languageModel, sessionsCreated, cvars, pvars>>

\* chrome.runtime.onInstalled listener: initAllModels()
onInstalled ==
  /\ reqs[0].pc = "new"
  /\ reqs' = [reqs EXCEPT ![0] = initLanguageModel([NewReq EXCEPT !.cmd = "install"])]
  /\ UNCHANGED <<host, languageModel, sessionsCreated, cvars, pvars>>

\* self.ai.languageModel.capabilities() settles
capabilitiesSettles(id) ==
  /\ reqs[id].pc = "caps"
  /\ \E ok \in BOOLEAN :
       reqs' = [reqs EXCEPT ![id] =
                  IF ok THEN [@ EXCEPT !.pc = "create", !.creates = @ + 1]
                  ELSE initReturns([@ EXCEPT !.threw = "capabilities"],
                                   0, languageModel)]
  /\ UNCHANGED <<host, languageModel, sessionsCreated, cvars, pvars>>

\* mutant of createSettles: a rejected create() is tried again
createSettles_retry(id) ==
  /\ reqs[id].pc = "create"
  /\ \E ok \in BOOLEAN :
       IF ok
       THEN /\ sessionsCreated' = sessionsCreated + 1
            /\ languageModel' = sessionsCreated + 1
            /\ reqs' = [reqs EXCEPT ![id] =
                          initReturns(@, sessionsCreated + 1, sessionsCreated + 1)]
       ELSE /\ reqs' = [reqs EXCEPT ![id] =
                          [@ EXCEPT !.threw = "create", !.creates = @ + 1]]
            /\ UNCHANGED <<languageModel, sessionsCreated>>
  /\ UNCHANGED <<host, cvars, pvars>>

\* self.ai.languageModel.create() settles
createSettles(id) ==
  /\ reqs[id].pc = "create"
  /\ \E ok \in BOOLEAN :
       IF ok
       THEN /\ sessionsCreated' = sessionsCreated + 1
            /\ languageModel' = sessionsCreated + 1
            /\ reqs' = [reqs EXCEPT ![id] =
                          initReturns(@, sessionsCreated + 1, sessionsCreated + 1)]
       ELSE /\ reqs' = [reqs EXCEPT ![id] =
                          initReturns([@ EXCEPT !.threw = "create"],
                                      0, languageModel)]
            /\ UNCHANGED <<languageModel, sessionsCreated>>
  /\ UNCHANGED <<host, cvars, pvars>>

\* languageModel.prompt() settles
promptSettles(id) ==
  /\ reqs[id].pc = "prompt"
  /\ \E o \in ModelOutcomes :
       reqs' = [reqs EXCEPT ![id] =
                  answer([@ EXCEPT !.outcome = o], parseResponse(o))]
  /\ UNCHANGED <<host, languageModel, sessionsCreated, cvars, pvars>>

\* ------------------------------------------------------------ the prompt
applyPrompt ==
  /\ ~promptBuilt
  /\ promptContext' = promptContextOf(promptMessages)
  /\ promptBuilt' = TRUE
  /\ UNCHANGED <<promptMessages, cvars, bvars>>

\* ======================================================== specifications
ContentIdle ==
  /\ InitContent
  /\ hasContainer

BgIdle ==
  /\ host = "full"
  /\ languageModel = 0
  /\ sessionsCreated = 0
  /\ reqs = <<>>

InitBg ==
  /\ host \in Hosts
  /\ languageModel = 0
  /\ sessionsCreated = 0
  /\ reqs = [i \in 0..MaxReqs |-> NewReq]

PromptIdle ==
  /\ promptMessages = <<>>
  /\ promptContext = <<>>
  /\ promptBuilt = FALSE

InitPrompt ==
  /\ \E n \in 0..MaxMsgs : \E u \in [1..n -> BOOLEAN] :
       promptMessages = [i \in 1..n |-> [M(i) EXCEPT !.isUser = u[i]]]
  /\ promptContext = <<>>
  /\ promptBuilt = FALSE

vars == <<cvars, bvars, pvars>>

Init == InitContent /\ BgIdle /\ PromptIdle

Next ==
  \/ CapabilitiesResponse
  \/ messageListener
  \/ Mutation
  \/ Tick
  \/ DebouncedCycle
  \/ Refresh
  \/ StopAuto
  \/ SuggestionClick
  \/ AnalyzeSettles

Spec == Init /\ [][Next]_vars

InitBackground == ContentIdle /\ InitBg /\ PromptIdle

NextBg ==
  \/ onInstalled
  \/ \E id \in 1..MaxReqs : onMessage(id)
  \/ \E id \in 0..MaxReqs : capabilitiesSettles(id)
  \/ \E id \in 0..MaxReqs : createSettles(id)
  \/ \E id \in 1..MaxReqs : promptSettles(id)

SpecBg == InitBackground /\ [][NextBg]_vars

\* The host settles the calls it was given: while a capabilities(),
\* create() or prompt() promise is pending, one of the pending promises is
\* eventually resolved or rejected.
HostSettles ==
  WF_vars(\E id \in 0..MaxReqs :
            capabilitiesSettles(id) \/ createSettles(id) \/ promptSettles(id))

SpecBgLive == SpecBg /\ HostSettles

\* the message listeners of the two scripts together
InitRouters == InitContent /\ InitBg /\ PromptIdle

NextRouters == messageListener \/ \E id \in 1..MaxReqs : onMessage(id)

SpecRouters == InitRouters /\ [][NextRouters]_vars

InitPromptSpec == ContentIdle /\ BgIdle /\ InitPrompt

NextPrompt == applyPrompt

SpecPrompt == InitPromptSpec /\ [][NextPrompt]_vars

\* ================================================================ claims
textsOf(ms) == [i \in 1..Len(ms) |-> ms[i].text]

\* C1: a debounced cycle that runs over a DOM whose user turns are those of
\* the stored transcript (same texts, same order) finds the comparison key
\* unchanged: it replaces neither the key nor the transcript and sends no
\* analyze_conversation request.
C1_Idempotence ==
  [][(/\ fx'.extracted
      /\ previousMessagesRef = stringify(messages)
      /\ textsOf(extractMessagesFromGemini(dom, now)) = textsOf(messages))
     => (/\ previousMessagesRef' = previousMessagesRef
         /\ messages' = messages
         /\ fx'.sent = <<>>)]_vars

\* C2: a cycle that observed a changed transcript of fewer than 3 user
\* messages has sent no request and has left the suggestion list empty.
C2_ThresholdGate ==
  (fx.extracted /\ fx.changed /\ Len(messages) < MIN_MESSAGES)
    => (fx.sent = <<>> /\ suggestions = <<>>)

\* C3: with the overlay visible and the capability reported available, a
\* cycle that observed a changed transcript of at least 3 user messages has
\* sent exactly one request, and its data.messages is that transcript.
C3_TriggerOnChange ==
  (/\ fx.extracted /\ fx.changed
   /\ isVisible /\ aiAvailable
   /\ Len(messages) >= MIN_MESSAGES)
    => fx.sent = <<messages>>

\* C4: while not in auto mode, the first batch of a run of batches with
\* maximum confidence above 0.85 shows no confirmation prompt and the second
\* one shows it exactly once.
C4_AutoModeArming ==
  [][(/\ ~isAutoMode
      /\ fx'.received
      /\ consecutiveHighConfidence' = consecutiveHighConfidence + 1)
     => (/\ consecutiveHighConfidence = 0 => fx'.confirms = 0
         /\ consecutiveHighConfidence = 1 => fx'.confirms = 1)]_vars

\* C5: when a non-empty batch whose confidences are all at most 0.85 arrives
\* in auto mode, auto mode is left and nothing is written to the chat input
\* and no Enter is dispatched in that step.
C5_AutoModeDisarming ==
  [][(/\ isAutoMode
      /\ fx'.received
      /\ suggestions' # <<>>
      /\ \A i \in 1..Len(suggestions') :
           suggestions'[i].confidence <= CONFIDENCE_THRESHOLD)
     => (~isAutoMode' /\ fx'.writes = <<>> /\ fx'.enters = 0)]_vars

C5_Witness ==
  /\ fx.received /\ fx.disarmed
  /\ suggestions = BatchEdge
  /\ ~isAutoMode

\* C6: the host creates at most one session, and all callers that obtained a
\* session obtained the same one.
C6_SingletonSession ==
  /\ sessionsCreated <= 1
  /\ \A i, j \in DOMAIN reqs :
       (reqs[i].got > 0 /\ reqs[j].got > 0) => reqs[i].got = reqs[j].got

isArrayText(o) == o.kind = "text" /\ o.json /\ o.value.type = "array"

\* C7: for a request with a message list, generateQuestions returns a value
\* whatever the model does, the router sends exactly that value, the value
\* has success true only if a session was obtained and the text parsed to an
\* array, and otherwise it is a failure value carrying an error.
C7_GenerateNeverThrows ==
  \A id \in DOMAIN reqs :
    LET r == reqs[id] IN
    (r.data = "list" /\ r.pc = "done")
      => /\ r.result.state = "returned"
         /\ r.resp = <<r.result.value>>
         /\ r.result.value.success <=> (r.got > 0 /\ isArrayText(r.outcome))
         /\ ~r.result.value.success
              => DOMAIN r.result.value = {"success", "error"}

C7_Witness ==
  \E id \in DOMAIN reqs :
    /\ reqs[id].data = "list" /\ reqs[id].pc = "done"
    /\ reqs[id].outcome = [kind |-> "text", json |-> TRUE,
                           value |-> [type |-> "object"]]
    /\ reqs[id].resp = <<Fail("Invalid response format")>>

\* the lines of a token sequence, split at the newline tokens
splitLines(toks) ==
  LET F[i \in 0..Len(toks)] ==
        IF i = 0 THEN << <<>> >>
        ELSE LET done == F[i-1] IN
             IF toks[i] = "\n" THEN Append(done, <<>>)
             ELSE [done EXCEPT ![Len(done)] = Append(@, toks[i])]
  IN IF toks = <<>> THEN <<>> ELSE F[Len(toks)]

\* positions of the user-authored messages among the last 10
includedPositions ==
  {i \in 1..Len(promptMessages) :
     i > Len(promptMessages) - 10 /\ promptMessages[i].isUser}

\* C8: the Context section has one line per user-authored message among the
\* last min(10, n) messages, in the original order; no other message
\* appears in it, in particular not the first 2 of 12.
C8_PromptContext ==
  promptBuilt =>
    LET lines == splitLines(promptContext) IN
    /\ Len(lines) = Cardinality(includedPositions)
    /\ \A i \in includedPositions :
         lines[Cardinality({j \in includedPositions : j <= i})]
           = <<"User: ", promptMessages[i].text>>
    /\ \A i \in (1..Len(promptMessages)) \ includedPositions :
         \A k \in 1..Len(promptContext) :
           promptContext[k] # promptMessages[i].text

C8_Witness ==
  /\ promptBuilt
  /\ Len(promptMessages) = 12
  /\ promptMessages[1].isUser /\ promptMessages[2].isUser
  /\ ~promptMessages[5].isUser /\ promptMessages[6].isUser
  /\ Len(splitLines(promptContext)) > 1

isSuggestion(x) ==
  /\ DOMAIN x = {"text", "confidence", "category"}
  /\ x.confidence \in 0..100
  /\ x.category \in {"followUp", "exploration", "clarification"}

\* C9: every response with success true that the background sends carries
\* only Suggestion records (text, confidence in [0,1], category one of the
\* three), and a model text of 3 well-formed suggestions yields exactly them.
C9_SuggestionRecords ==
  \A id \in DOMAIN reqs :
    LET r == reqs[id] IN
    \A k \in 1..Len(r.resp) :
      ("success" \in DOMAIN r.resp[k] /\ r.resp[k].success)
        => /\ \A i \in 1..Len(r.resp[k].suggestions) :
                isSuggestion(r.resp[k].suggestions[i])
           /\ (isArrayText(r.outcome) /\ r.outcome.value.items = WellFormed)
                => r.resp[k] = Ok(WellFormed)

\* C10: an analyze_conversation message without data, without data.messages
\* or with an empty list is answered at once with the Invalid data failure,
\* the listener does not return true, and no session is asked for, no host
\* call is made and no prompt is submitted for it.
C10_InvalidRequest ==
  \A id \in DOMAIN reqs :
    LET r == reqs[id] IN
    (r.cmd = "analyze_conversation"
       /\ r.data \in {"nodata", "nomessages", "empty"})
      => /\ r.pc = "done"
         /\ r.resp = <<Fail("Invalid data")>>
         /\ r.ret = "undefined"
         /\ r.got = -1 /\ r.caps = 0 /\ r.creates = 0 /\ r.prompts = <<>>
         /\ r.result = Pending

C10_Witness ==
  \E id \in DOMAIN reqs :
    /\ reqs[id].cmd = "analyze_conversation"
    /\ reqs[id].data = "empty"
    /\ reqs[id].resp = <<Fail("Invalid data")>>

\* C11: an analyze_conversation message with a non-empty message list makes
\* the listener return true; the response channel is used at most once, and
\* only with the value generateQuestions returned; and if the host settles
\* its calls, the response is eventually sent.
C11_ValidRequest ==
  \A id \in 1..MaxReqs :
    /\ [](reqs[id].data = "list"
           => /\ reqs[id].ret = "true"
              /\ Len(reqs[id].resp) <= 1
              /\ reqs[id].pc = "done"
                   => /\ reqs[id].result.state = "returned"
                      /\ reqs[id].resp = <<reqs[id].result.value>>
              /\ reqs[id].pc # "done" => reqs[id].resp = <<>>)
    /\ (reqs[id].data = "list")
         ~> (reqs[id].pc = "done" /\ Len(reqs[id].resp) = 1)

C11_Witness ==
  \E id \in 1..MaxReqs :
    /\ reqs[id].data = "list" /\ reqs[id].ret = "true"
    /\ reqs[id].pc = "done"
    /\ reqs[id].creates = 1 /\ Len(reqs[id].prompts) = 1
    /\ reqs[id].resp = <<Ok(WellFormed)>>

\* C12: whatever the host environment provides, the probe gives a boolean
\* that is true exactly when the ai namespace and its languageModel member
\* are both present, and every check_capabilities message is answered once,
\* with that boolean, the listener having announced the response.
C12_CapabilityProbe ==
  /\ isLanguageModelAvailable \in BOOLEAN
  /\ isLanguageModelAvailable <=> (host # "none" /\ host # "ai")
  /\ \A id \in 1..MaxReqs :
       reqs[id].cmd = "check_capabilities"
         => /\ reqs[id].ret = "true"
            /\ reqs[id].resp =
                 <<[capabilities |->
                      [isLanguageModelAvailable |-> (host = "full")]]>>

C12_Witness ==
  /\ host = "ai"
  /\ \E id \in 1..MaxReqs :
       /\ reqs[id].cmd = "check_capabilities"
       /\ reqs[id].resp =
            <<[capabilities |-> [isLanguageModelAvailable |-> FALSE]]>>

\* C13: while the overlay is hidden no extraction cycle runs, the stored
\* transcript is not replaced and no analyze request is sent.
C13_HiddenMeansIdle ==
  ~isVisible => (~fx.extracted /\ ~fx.changed /\ fx.sent = <<>>)

\* C14: an extraction cycle runs only when the quiet window has elapsed
\* since the last observed mutation: no timeout armed by a later mutation of
\* the burst is still waiting when a cycle runs.
C14_TrailingDebounce ==
  fx.extracted => \A i \in 1..Len(timers) : timers[i].due <= now

\* C15: at most one analyze request issued by the debounced observer cycle
\* is awaiting its response.
C15_OneObservationInFlight ==
  Len(SelectSeq(inflight, LAMBDA r : r.src = "observer")) <= 1

\* C16: when capabilities() or create() throws, initLanguageModel returns
\* null after that one attempt, the failure stores nothing in the module
\* variable, and an activation that finds the variable null on a capable
\* host starts a creation of its own, whose session it returns if the host
\* succeeds.
C16_FailureNotCached ==
  [][\A id \in DOMAIN reqs :
       LET r == reqs[id]
           r2 == reqs'[id] IN
       /\ r2.threw # ""
            => r2.init = 0 /\ r2.caps = 1 /\ r2.creates <= 1
       /\ (r.threw = "" /\ r2.threw # "") => languageModel' = languageModel
       /\ (/\ r.pc = "new" /\ r2.pc # "new"
           /\ host = "full" /\ languageModel = 0
           /\ r2.cmd = "install" \/ r2.data \in {"list", "notlist"})
            => r2.pc = "caps" /\ r2.caps = 1 /\ r2.creates = 0
       /\ (r.pc = "create" /\ r2.pc # "create" /\ r2.threw = "")
            => /\ r2.init = languageModel' /\ languageModel' > 0
               /\ r2.got = languageModel'
    ]_vars

C16_Witness ==
  \E i, j \in DOMAIN reqs :
    /\ i < j
    /\ reqs[i].threw = "create" /\ reqs[i].init = 0 /\ reqs[i].got = 0
    /\ reqs[j].caps = 1 /\ reqs[j].creates = 1
    /\ reqs[j].init = 1 /\ reqs[j].got = 1

\* C17: on a host without the language-model capability no activation
\* calls capabilities() or create(), initLanguageModel and getLanguageModel
\* give null, no session exists, and an analyze request with messages is
\* answered with the "Language model not available" failure that
\* generateQuestions returned, no prompt having been submitted.
C17_NoCapabilityNoSession ==
  ~isLanguageModelAvailable
    => /\ languageModel = 0 /\ sessionsCreated = 0
       /\ \A id \in DOMAIN reqs :
            LET r == reqs[id] IN
            (r.cmd = "install" \/ r.data \in {"list", "notlist"})
              => /\ r.pc = "done"
                 /\ r.init = 0 /\ r.got = 0 /\ r.threw = ""
                 /\ r.caps = 0 /\ r.creates = 0 /\ r.prompts = <<>>
                 /\ r.cmd # "install"
                      => /\ r.result =
                              Returned(Fail("Language model not available"))
                         /\ r.resp = <<Fail("Language model not available")>>

C17_Witness ==
  /\ host = "ai"
  /\ reqs[0].cmd = "install" /\ reqs[0].got = 0
  /\ \E id \in 1..MaxReqs :
       /\ reqs[id].data = "list" /\ reqs[id].init = 0
       /\ reqs[id].resp = <<Fail("Language model not available")>>

\* C18: a message whose command the receiving listener does not serve gets
\* no response and no announcement of one, and changes nothing: in the
\* background script no host call, no session and no other activation; in
\* the content script no state of the overlay.
C18_UnknownIgnored ==
  [][/\ \A id \in 1..MaxReqs :
          reqs'[id].cmd = "unknown"
            => /\ reqs'[id].resp = <<>> /\ reqs'[id].ret = "undefined"
               /\ reqs'[id].pc = "done" /\ reqs'[id].result = Pending
               /\ reqs'[id].caps = 0 /\ reqs'[id].creates = 0
               /\ reqs'[id].prompts = <<>> /\ reqs'[id].got = -1
               /\ reqs[id].pc = "new"
                    => /\ UNCHANGED <<host, languageModel, sessionsCreated>>
                       /\ \A j \in DOMAIN reqs : j # id => reqs'[j] = reqs[j]
     /\ fx'.cmd = "unknown"
          => /\ fx'.acks = <<>>
             /\ UNCHANGED <<isVisible, messages, suggestions, isAnalyzing,
                            aiAvailable, isAutoMode, confidenceScore,
                            consecutiveHighConfidence, previousMessagesRef,
                            analyzeConversation, timers, inflight>>
    ]_vars

C18_Witness ==
  /\ fx.cmd = "unknown" /\ isVisible
  /\ \E id \in 1..MaxReqs :
       reqs[id].cmd = "unknown" /\ reqs[id].pc = "done" /\ reqs[id].resp = <<>>

\* C19: the overlay starts hidden; a toggle_visibility message flips the
\* visibility flag, is acknowledged with {success: true} and leaves the
\* transcript key, the transcript, the counter, the score, the auto-mode
\* flag and the suggestions alone; and after n toggle messages the overlay
\* is visible exactly when n is odd.
C19_ToggleVisibility ==
  [][/\ fx'.cmd = "toggle_visibility"
          => /\ isVisible' = ~isVisible
             /\ fx'.acks = <<[success |-> TRUE]>>
             /\ UNCHANGED <<previousMessagesRef, messages, suggestions,
                            consecutiveHighConfidence, confidenceScore,
                            isAutoMode>>
     /\ isVisible' <=> toggles' = 1
    ]_vars

C19_Witness ==
  /\ fx.cmd = "toggle_visibility" /\ ~isVisible
  /\ suggestions # <<>> /\ isAutoMode /\ consecutiveHighConfidence > 0

\* C20: when an analyze request ends without a success response (a
\* {success: false} value, no response, or a rejected round trip), the
\* suggestions, the counter, the score and the auto-mode flag stay as they
\* were, nothing is written to the page, and isAnalyzing is false again, so
\* that the Refresh button is not disabled.
C20_FailuresRecoverable ==
  [][fx'.failed
       => /\ UNCHANGED <<suggestions, consecutiveHighConfidence,
                         confidenceScore, isAutoMode, isVisible, messages>>
          /\ ~isAnalyzing'
          /\ fx'.writes = <<>> /\ fx'.enters = 0 /\ fx'.confirms = 0
          /\ Len(inflight') = Len(inflight) - 1
    ]_vars

C20_Witness ==
  /\ fx.failed /\ ~isAnalyzing
  /\ suggestions # <<>> /\ isAutoMode /\ consecutiveHighConfidence > 0

\* C21: the counter starts at 0; a step that processes a non-empty batch adds
\* exactly 1 to it when the batch's maximum confidence is above 0.85 and sets
\* it to 0 otherwise, and stores that maximum as the confidence score; no
\* other step changes either, so the counter is the length of the trailing
\* run of high batches.
C21_ConsecutiveCounter ==
  [][IF fx'.received /\ suggestions' # <<>>
     THEN LET top == bestSuggestion(suggestions').confidence IN
          /\ \A i \in 1..Len(suggestions') : suggestions'[i].confidence <= top
          /\ confidenceScore' = top
          /\ consecutiveHighConfidence' =
               IF top > CONFIDENCE_THRESHOLD
               THEN consecutiveHighConfidence + 1 ELSE 0
     ELSE UNCHANGED <<confidenceScore, consecutiveHighConfidence>>]_vars

C21_Witness ==
  /\ fx.received
  /\ suggestions = BatchEdge
  /\ confidenceScore = 85
  /\ consecutiveHighConfidence = 0
  /\ Len(inflight) = 1
  /\ inflight[1].asks

\* the maximum confidence of a non-empty batch, and the first suggestion in
\* list order that attains it
maxConfidence(b) ==
  CHOOSE c \in {b[i].confidence : i \in 1..Len(b)} :
    \A i \in 1..Len(b) : b[i].confidence <= c

firstAttainingMax(b) ==
  b[CHOOSE i \in 1..Len(b) :
      /\ b[i].confidence = maxConfidence(b)
      /\ \A j \in 1..(i-1) : b[j].confidence # maxConfidence(b)]

\* C22 as stated: in auto mode, every non-empty batch with maximum confidence
\* above 0.85 has the text of the first suggestion attaining the maximum
\* written to the chat input and exactly one Enter dispatched, and auto mode
\* stays on.
C22_AutoSubmission_Always ==
  [][(/\ isAutoMode
      /\ fx'.received
      /\ suggestions' # <<>>
      /\ maxConfidence(suggestions') > CONFIDENCE_THRESHOLD)
     => (/\ fx'.writes = <<firstAttainingMax(suggestions').text>>
         /\ fx'.enters = 1
         /\ isAutoMode')]_vars

\* C22 amended: the same, for the batches at whose arrival the page holds an
\* editable input element; auto mode stays on in either case.
C22_AutoSubmission ==
  [][(/\ isAutoMode
      /\ fx'.received
      /\ suggestions' # <<>>
      /\ maxConfidence(suggestions') > CONFIDENCE_THRESHOLD)
     => (/\ isAutoMode'
         /\ fx'.input # "missing" =>
              /\ fx'.writes = <<firstAttainingMax(suggestions').text>>
              /\ fx'.enters = 1)]_vars

C22_Witness ==
  /\ fx.received
  /\ fx.confirms = 0
  /\ isAutoMode
  /\ suggestions = BatchHigh
  /\ fx.input = "found"
  /\ fx.writes = <<"s2">>
  /\ fx.enters = 1

\* C23: a suggestion click or an auto-submission that finds no editable
\* input writes nothing, dispatches no Enter and throws nothing; such a click
\* changes no overlay state and such an auto-submission leaves auto mode on.
\* Without the chat container no observer is attached: no debounce timeout is
\* ever armed and no extraction cycle runs.  A click that finds the input
\* writes the text of the clicked suggestion and dispatches one Enter, in
\* manual and in auto mode alike.
C23_DomAbsence ==
  [][/\ ~fx'.error
     /\ fx'.input = "missing" => (fx'.writes = <<>> /\ fx'.enters = 0)
     /\ (fx'.click /\ fx'.input = "missing") =>
          UNCHANGED <<isVisible, messages, suggestions, isAnalyzing,
                      aiAvailable, isAutoMode, confidenceScore,
                      consecutiveHighConfidence, previousMessagesRef,
                      analyzeConversation, timers, inflight>>
     /\ (~fx'.click /\ fx'.input = "missing") =>
          (isAutoMode' /\ ~fx'.disarmed)
     /\ ~hasContainer => (timers' = <<>> /\ ~fx'.extracted)
     /\ fx'.click =>
          /\ fx'.clicked \in 1..Len(suggestions)
          /\ fx'.input \in {"found", "missing"}
          /\ fx'.input = "found" =>
               /\ fx'.writes = <<suggestions[fx'.clicked].text>>
               /\ fx'.enters = 1]_vars

C23_Witness ==
  /\ fx.click
  /\ fx.input = "missing"
  /\ fx.clicked = 2
  /\ isAutoMode
  /\ suggestions = BatchHigh

C25_AnalyzingTracksInflight == isAnalyzing <=> inflight # <<>>

\* C26: isAutoMode turns true only in a step in which the confirmation prompt
\* is shown and accepted; text is written to the chat input or Enter is
\* dispatched without a click only by a render in which isAutoMode is true;
\* pressing Stop Auto leaves isAutoMode false and submits nothing.  Hence no
\* automatic submission follows Stop Auto before a later acceptance.
C26_AutoNeedsConsent ==
  [][/\ (~isAutoMode /\ isAutoMode') =>
          (fx'.confirms >= 1 /\ fx'.accepted)
     /\ (~fx'.click /\ (fx'.writes # <<>> \/ fx'.enters > 0)) =>
          (isAutoMode' /\ (isAutoMode \/ fx'.accepted))
     /\ fx'.stop =>
          (~isAutoMode' /\ fx'.writes = <<>> /\ fx'.enters = 0)]_vars

C26_Witness ==
  /\ fx.confirms = 1
  /\ fx.accepted
  /\ isAutoMode
  /\ ~fx.click
  /\ fx.writes = <<"s2">>
  /\ fx.enters = 1
  /\ consecutiveHighConfidence = 1

\* C27: while aiAvailable is false (before the check_capabilities response,
\* and after one that reports false or carries no capabilities) no step sends
\* an analyze_conversation request, none is outstanding, isAnalyzing is false
\* and the Refresh control is not rendered.
C27_NoAnalysisWithoutCapability ==
  ~aiAvailable =>
    /\ fx.sent = <<>>
    /\ inflight = <<>>
    /\ ~isAnalyzing
    /\ ~panelShown
    /\ ~analyzeConversation.ai

\* an observer cycle that found a changed transcript of 3 turns and called
\* analyzeConversation after the response reported no capability
C27_Witness ==
  /\ ~aiAvailable
  /\ ~capPending
  /\ isVisible
  /\ fx.extracted /\ fx.changed
  /\ Len(messages) = 3
  /\ messages[1].timestamp = 4
  /\ fx.sent = <<>>

====
